---- MODULE Spec2Model ----
(***************************************************************************)
(* rustyjs: Option<T>, Result<T, E> and Iterator<T>.                       *)
(*                                                                         *)
(* Objects live in heaps (sequences indexed by object identity).  A method *)
(* is an operator from the heap, the receiver and the arguments to the     *)
(* heap after the call, the call's outcome (a returned value or a thrown   *)
(* Error) and the list of callbacks it invoked.                            *)
(***************************************************************************)
EXTENDS Integers, Sequences, FiniteSets, TLC

VARIABLES
    opts,      \* heap of Option instances (Some | None)
    results,   \* heap of Result instances (Ok | Err)
    arrays,    \* heap of JavaScript arrays
    iters,     \* heap of Iterator instances: [items: array identity, index]
    scan,      \* position of a running skipWhile / takeWhile loop
    made,      \* for each Option / Result / Iterator instance, the call that created it
    op,        \* the last call: method, receiver and arguments
    ret,       \* outcome of the last call
    calls      \* callbacks invoked by the last call, in order

vars == <<opts, results, arrays, iters, scan, made, op, ret, calls>>

(***************************************************************************)
(* Bounds.                                                                 *)
(***************************************************************************)
\* Option / Result instances alive at once.
MaxObjs == 2
\* Largest number used as a constructor argument or default.
MaxVal == 2
\* Longest sequence built by Iterator.range in the initial state.
MaxLen == 2
\* How many times next may be called on an exhausted iterator.
MaxOverrun == 1

(***************************************************************************)
(* JavaScript values.                                                      *)
(***************************************************************************)
Num(n) == <<"number", n>>
Str(s) == <<"string", s>>
Bool(b) == <<"boolean", b>>
Undefined == <<"undefined">>
Tuple(x, y) == <<"tuple", x, y>>
Obj(i) == <<"object", i>>
Arr(k) == <<"array", k>>

IsNum(v) == v[1] = "number"

\* Outcome of a call.
Return(v) == <<"return", v>>
Throw(message) == <<"throw", "Error", message>>
NoCall == <<"none">>

Returned(o) == o[1] = "return"
Threw(o) == o[1] = "throw"

InputNums == {Num(n) : n \in 1..MaxVal}
InputErrs == {Str("Division by zero"), Str("Something went wrong.")}

\* The last call, as recorded in op.
Call(name, this, fn, val) == [name |-> name, this |-> this, fn |-> fn, val |-> val]
NoOp == Call("", 0, "", Undefined)

(***************************************************************************)
(* Callbacks handed to the methods.                                        *)
(***************************************************************************)
\* (value) => U
MapFns == {"double", "inc"}
Apply(fn, v) ==
    IF fn = "double" THEN (IF IsNum(v) THEN Num(2 * v[2]) ELSE v)
    ELSE IF fn = "inc" THEN (IF IsNum(v) THEN Num(v[2] + 1) ELSE v)
    ELSE Undefined

\* () => T and (error) => T
ElseFns == {"zero"}
ApplyElse(fn) == Num(0)

(***************************************************************************)
(* Option (src/src/option.ts).                                             *)
(***************************************************************************)
Some(value) == [type |-> "Some", value |-> value]
None == [type |-> "None"]

Effect(heap, out, invoked) == [heap |-> heap, out |-> out, calls |-> invoked]

Option_Some(heap, value) ==
    Effect(Append(heap, Some(value)), Return(Obj(Len(heap) + 1)), <<>>)
Option_None(heap) ==
    Effect(Append(heap, None), Return(Obj(Len(heap) + 1)), <<>>)

\* (value) => Option<U>
FlatMapFns == {"Option.Some", "toNone"}
ApplyOption(heap, fn, v) ==
    IF fn = "Option.Some" THEN Option_Some(heap, v) ELSE Option_None(heap)

Some_isSome(heap, this) == Effect(heap, Return(Bool(TRUE)), <<>>)
Some_isNone(heap, this) == Effect(heap, Return(Bool(FALSE)), <<>>)
Some_unwrap(heap, this) == Effect(heap, Return(heap[this].value), <<>>)
\* Mutant: the default wins over the wrapped value.
Some_unwrapOrDefault_default(heap, this, defaultValue) ==
    Effect(heap, Return(defaultValue), <<>>)
Some_unwrapOrDefault(heap, this, defaultValue) ==
    Effect(heap, Return(heap[this].value), <<>>)
Some_unwrapOrElse(heap, this, fn) ==
    Effect(heap, Return(heap[this].value), <<>>)
Some_map(heap, this, fn) ==
    LET e == Option_Some(heap, Apply(fn, heap[this].value))
    IN  Effect(e.heap, e.out, <<<<fn, heap[this].value>>>>)
\* Mutant: the callback's Option is wrapped once more, as map would.
Some_flatMap_nested(heap, this, fn) ==
    LET e == ApplyOption(heap, fn, heap[this].value)
        w == Option_Some(e.heap, e.out[2])
    IN  Effect(w.heap, w.out, <<<<fn, heap[this].value>>>>)
Some_flatMap(heap, this, fn) ==
    LET e == ApplyOption(heap, fn, heap[this].value)
    IN  Effect(e.heap, e.out, <<<<fn, heap[this].value>>>>)
Some_expect(heap, this, message) ==
    Effect(heap, Return(heap[this].value), <<>>)

None_isSome(heap, this) == Effect(heap, Return(Bool(FALSE)), <<>>)
None_isNone(heap, this) == Effect(heap, Return(Bool(TRUE)), <<>>)
\* Mutant: unwrap on None hands back undefined instead of throwing.
None_unwrap_undefined(heap, this) == Effect(heap, Return(Undefined), <<>>)
None_unwrap(heap, this) ==
    Effect(heap, Throw("Called unwrap on a None value."), <<>>)
None_unwrapOrDefault(heap, this, defaultValue) ==
    Effect(heap, Return(defaultValue), <<>>)
None_unwrapOrElse(heap, this, fn) ==
    Effect(heap, Return(ApplyElse(fn)), <<<<fn, Undefined>>>>)
\* Mutant: map on None still runs the callback, on undefined.
None_map_invokes(heap, this, fn) ==
    LET e == Option_Some(heap, Apply(fn, Undefined))
    IN  Effect(e.heap, e.out, <<<<fn, Undefined>>>>)
None_map(heap, this, fn) == Option_None(heap)
None_flatMap(heap, this, fn) == Option_None(heap)
None_expect(heap, this, message) == Effect(heap, Throw(message), <<>>)

\* Dynamic dispatch on the receiver's class.
IsSome(o) == o.type = "Some"
Option_isSome(heap, this) ==
    IF IsSome(heap[this]) THEN Some_isSome(heap, this) ELSE None_isSome(heap, this)
Option_isNone(heap, this) ==
    IF IsSome(heap[this]) THEN Some_isNone(heap, this) ELSE None_isNone(heap, this)
Option_unwrap(heap, this) ==
    IF IsSome(heap[this]) THEN Some_unwrap(heap, this) ELSE None_unwrap(heap, this)
Option_unwrapOrDefault(heap, this, d) ==
    IF IsSome(heap[this]) THEN Some_unwrapOrDefault(heap, this, d)
    ELSE None_unwrapOrDefault(heap, this, d)
Option_unwrapOrElse(heap, this, fn) ==
    IF IsSome(heap[this]) THEN Some_unwrapOrElse(heap, this, fn)
    ELSE None_unwrapOrElse(heap, this, fn)
Option_map(heap, this, fn) ==
    IF IsSome(heap[this]) THEN Some_map(heap, this, fn) ELSE None_map(heap, this, fn)
Option_flatMap(heap, this, fn) ==
    IF IsSome(heap[this]) THEN Some_flatMap(heap, this, fn)
    ELSE None_flatMap(heap, this, fn)
Option_expect(heap, this, message) ==
    IF IsSome(heap[this]) THEN Some_expect(heap, this, message)
    ELSE None_expect(heap, this, message)

(***************************************************************************)
(* Option: the calls a client makes.                                       *)
(***************************************************************************)
\* Every instance the call allocated is recorded with the call that made it.
Record(log, old, new, c) == log \o [i \in 1..(Len(new) - Len(old)) |-> c]

OptionDone(e, name, this, fn, val) ==
    /\ opts' = e.heap
    /\ made' = Record(made, opts, e.heap, Call(name, this, fn, val))
    /\ ret' = e.out
    /\ calls' = e.calls
    /\ op' = Call(name, this, fn, val)
    /\ UNCHANGED <<results, arrays, iters, scan>>

OptionInit ==
    /\ \/ \E v \in InputNums :
             /\ opts = Option_Some(<<>>, v).heap
             /\ made = <<Call("Option.Some", 0, "", v)>>
       \/ /\ opts = Option_None(<<>>).heap
          /\ made = <<Call("Option.None", 0, "", Undefined)>>
    /\ results = <<>>
    /\ arrays = <<>>
    /\ iters = <<>>
    /\ scan = NoOp
    /\ op = NoOp
    /\ ret = NoCall
    /\ calls = <<>>

OptIsSome == \E this \in DOMAIN opts :
    OptionDone(Option_isSome(opts, this), "isSome", this, "", Undefined)
OptIsNone == \E this \in DOMAIN opts :
    OptionDone(Option_isNone(opts, this), "isNone", this, "", Undefined)
OptUnwrap == \E this \in DOMAIN opts :
    OptionDone(Option_unwrap(opts, this), "unwrap", this, "", Undefined)
OptUnwrapOrDefault == \E this \in DOMAIN opts, d \in InputNums :
    OptionDone(Option_unwrapOrDefault(opts, this, d), "unwrapOrDefault", this, "", d)
OptUnwrapOrElse == \E this \in DOMAIN opts, fn \in ElseFns :
    OptionDone(Option_unwrapOrElse(opts, this, fn), "unwrapOrElse", this, fn, Undefined)
OptExpect == \E this \in DOMAIN opts :
    OptionDone(Option_expect(opts, this, "expected a value"), "expect", this, "",
               Str("expected a value"))
OptMap == \E this \in DOMAIN opts, fn \in MapFns :
    /\ Len(opts) < MaxObjs
    /\ OptionDone(Option_map(opts, this, fn), "map", this, fn, Undefined)
OptFlatMap == \E this \in DOMAIN opts, fn \in FlatMapFns :
    /\ Len(opts) < MaxObjs
    /\ OptionDone(Option_flatMap(opts, this, fn), "flatMap", this, fn, Undefined)

OptionNext ==
    \/ OptIsSome
    \/ OptIsNone
    \/ OptUnwrap
    \/ OptUnwrapOrDefault
    \/ OptUnwrapOrElse
    \/ OptExpect
    \/ OptMap
    \/ OptFlatMap

SpecOption == OptionInit /\ [][OptionNext]_vars

(***************************************************************************)
(* Option: properties.                                                     *)
(***************************************************************************)
\* The instance a call returned.
Returnee(heap) == heap[ret[2][2]]

\* C1: unwrap on Some(v) returns v; unwrap on None returns nothing and throws
\* the Error "Called unwrap on a None value.".
C1_Unwrap ==
    op.name = "unwrap" =>
        IF IsSome(opts[op.this])
        THEN ret = Return(opts[op.this].value)
        ELSE /\ Threw(ret)
             /\ ~Returned(ret)
             /\ ret = Throw("Called unwrap on a None value.")
C1_Witness ==
    /\ op.name = "unwrap"
    /\ opts[op.this] = None
    /\ Threw(ret)

\* C4: map on None returns an Option for which isNone() is true, and the
\* callback is not invoked.
C4_MapNone ==
    (op.name = "map" /\ ~IsSome(opts[op.this])) =>
        /\ Returned(ret)
        /\ Option_isNone(opts, ret[2][2]).out = Return(Bool(TRUE))
        /\ calls = <<>>
C4_Witness ==
    /\ op.name = "map"
    /\ opts[op.this] = None
    /\ Returnee(opts) = None
    /\ calls = <<>>

\* C5: unwrapOrDefault(d) returns v on Some(v) and d on None.
C5_UnwrapOrDefault ==
    op.name = "unwrapOrDefault" =>
        IF IsSome(opts[op.this])
        THEN ret = Return(opts[op.this].value)
        ELSE ret = Return(op.val)
C5_Witness ==
    /\ op.name = "unwrapOrDefault"
    /\ IsSome(opts[op.this])
    /\ op.val # opts[op.this].value
    /\ ret = Return(opts[op.this].value)

\* C6: unwrap on the Option that Some(x).flatMap(Option.Some) returned
\* returns x.
FromFlatMapSome(i) ==
    /\ made[i].name = "flatMap"
    /\ made[i].fn = "Option.Some"
    /\ IsSome(opts[made[i].this])
C6_FlatMapRoundTrip ==
    (op.name = "unwrap" /\ FromFlatMapSome(op.this)) =>
        ret = Return(opts[made[op.this].this].value)
C6_Witness ==
    /\ op.name = "unwrap"
    /\ FromFlatMapSome(op.this)
    /\ ret = Return(Num(MaxVal))


(***************************************************************************)
(* Result (src/src/result.ts).                                             *)
(***************************************************************************)
Ok(value) == [type |-> "Ok", value |-> value]
Err(error) == [type |-> "Err", error |-> error]

Result_Ok(heap, value) ==
    Effect(Append(heap, Ok(value)), Return(Obj(Len(heap) + 1)), <<>>)
Result_Err(heap, error) ==
    Effect(Append(heap, Err(error)), Return(Obj(Len(heap) + 1)), <<>>)

\* (value) => Result<U, E>
ResultFlatMapFns == {"Result.Ok", "fail"}
ApplyResult(heap, fn, v) ==
    IF fn = "Result.Ok" THEN Result_Ok(heap, v)
    ELSE Result_Err(heap, Str("Something went wrong."))

\* Mutant: isOk answers for the other variant.
Ok_isOk_false(heap, this) == Effect(heap, Return(Bool(FALSE)), <<>>)
Ok_isOk(heap, this) == Effect(heap, Return(Bool(TRUE)), <<>>)
Ok_isErr(heap, this) == Effect(heap, Return(Bool(FALSE)), <<>>)
Ok_unwrap(heap, this) == Effect(heap, Return(heap[this].value), <<>>)
Ok_unwrapOrDefault(heap, this, defaultValue) ==
    Effect(heap, Return(heap[this].value), <<>>)
Ok_unwrapOrElse(heap, this, fn) == Effect(heap, Return(heap[this].value), <<>>)
Ok_expect(heap, this, message) == Effect(heap, Return(heap[this].value), <<>>)
Ok_getErr(heap, this) == Effect(heap, Throw("Called getErr on an Ok value."), <<>>)
\* Mutant: map stores the mapped value in the receiver and returns it.
Ok_map_inPlace(heap, this, fn) ==
    Effect([heap EXCEPT ![this] = Ok(Apply(fn, heap[this].value))],
           Return(Obj(this)), <<<<fn, heap[this].value>>>>)
Ok_map(heap, this, fn) ==
    LET e == Result_Ok(heap, Apply(fn, heap[this].value))
    IN  Effect(e.heap, e.out, <<<<fn, heap[this].value>>>>)
Ok_flatMap(heap, this, fn) ==
    LET e == ApplyResult(heap, fn, heap[this].value)
    IN  Effect(e.heap, e.out, <<<<fn, heap[this].value>>>>)

Err_isOk(heap, this) == Effect(heap, Return(Bool(FALSE)), <<>>)
Err_isErr(heap, this) == Effect(heap, Return(Bool(TRUE)), <<>>)
Err_unwrap(heap, this) == Effect(heap, Throw("Called unwrap on an error."), <<>>)
Err_unwrapOrDefault(heap, this, defaultValue) ==
    Effect(heap, Return(defaultValue), <<>>)
Err_unwrapOrElse(heap, this, fn) ==
    Effect(heap, Return(ApplyElse(fn)), <<<<fn, heap[this].error>>>>)
Err_expect(heap, this, message) == Effect(heap, Throw(message), <<>>)
Err_getErr(heap, this) == Effect(heap, Return(heap[this].error), <<>>)
\* Mutant: map on Err runs the callback and wraps what it returns as the error.
Err_map_invokes(heap, this, fn) ==
    LET e == Result_Err(heap, Apply(fn, heap[this].error))
    IN  Effect(e.heap, e.out, <<<<fn, heap[this].error>>>>)
Err_map(heap, this, fn) == Result_Err(heap, Err_getErr(heap, this).out[2])
Err_flatMap(heap, this, fn) == Result_Err(heap, Err_getErr(heap, this).out[2])

\* Dynamic dispatch on the receiver's class.
IsOk(r) == r.type = "Ok"
Result_isOk(heap, this) ==
    IF IsOk(heap[this]) THEN Ok_isOk(heap, this) ELSE Err_isOk(heap, this)
Result_isErr(heap, this) ==
    IF IsOk(heap[this]) THEN Ok_isErr(heap, this) ELSE Err_isErr(heap, this)
Result_unwrap(heap, this) ==
    IF IsOk(heap[this]) THEN Ok_unwrap(heap, this) ELSE Err_unwrap(heap, this)
Result_unwrapOrDefault(heap, this, d) ==
    IF IsOk(heap[this]) THEN Ok_unwrapOrDefault(heap, this, d)
    ELSE Err_unwrapOrDefault(heap, this, d)
Result_unwrapOrElse(heap, this, fn) ==
    IF IsOk(heap[this]) THEN Ok_unwrapOrElse(heap, this, fn)
    ELSE Err_unwrapOrElse(heap, this, fn)
Result_expect(heap, this, message) ==
    IF IsOk(heap[this]) THEN Ok_expect(heap, this, message)
    ELSE Err_expect(heap, this, message)
Result_getErr(heap, this) ==
    IF IsOk(heap[this]) THEN Ok_getErr(heap, this) ELSE Err_getErr(heap, this)
Result_map(heap, this, fn) ==
    IF IsOk(heap[this]) THEN Ok_map(heap, this, fn) ELSE Err_map(heap, this, fn)
Result_flatMap(heap, this, fn) ==
    IF IsOk(heap[this]) THEN Ok_flatMap(heap, this, fn) ELSE Err_flatMap(heap, this, fn)

(***************************************************************************)
(* Result: the calls a client makes.                                       *)
(***************************************************************************)
ResultDone(e, name, this, fn, val) ==
    /\ results' = e.heap
    /\ made' = Record(made, results, e.heap, Call(name, this, fn, val))
    /\ ret' = e.out
    /\ calls' = e.calls
    /\ op' = Call(name, this, fn, val)
    /\ UNCHANGED <<opts, arrays, iters, scan>>

ResultInit ==
    /\ \/ \E v \in InputNums :
             /\ results = Result_Ok(<<>>, v).heap
             /\ made = <<Call("Result.Ok", 0, "", v)>>
       \/ \E e \in InputErrs :
             /\ results = Result_Err(<<>>, e).heap
             /\ made = <<Call("Result.Err", 0, "", e)>>
    /\ opts = <<>>
    /\ arrays = <<>>
    /\ iters = <<>>
    /\ scan = NoOp
    /\ op = NoOp
    /\ ret = NoCall
    /\ calls = <<>>

ResIsOk == \E this \in DOMAIN results :
    ResultDone(Result_isOk(results, this), "isOk", this, "", Undefined)
ResIsErr == \E this \in DOMAIN results :
    ResultDone(Result_isErr(results, this), "isErr", this, "", Undefined)
ResUnwrap == \E this \in DOMAIN results :
    ResultDone(Result_unwrap(results, this), "unwrap", this, "", Undefined)
ResUnwrapOrDefault == \E this \in DOMAIN results, d \in InputNums :
    ResultDone(Result_unwrapOrDefault(results, this, d), "unwrapOrDefault", this, "", d)
ResUnwrapOrElse == \E this \in DOMAIN results, fn \in ElseFns :
    ResultDone(Result_unwrapOrElse(results, this, fn), "unwrapOrElse", this, fn, Undefined)
ResExpect == \E this \in DOMAIN results :
    ResultDone(Result_expect(results, this, "Error message"), "expect", this, "",
               Str("Error message"))
ResGetErr == \E this \in DOMAIN results :
    ResultDone(Result_getErr(results, this), "getErr", this, "", Undefined)
ResMap == \E this \in DOMAIN results, fn \in MapFns :
    /\ Len(results) < MaxObjs
    /\ ResultDone(Result_map(results, this, fn), "map", this, fn, Undefined)
ResFlatMap == \E this \in DOMAIN results, fn \in ResultFlatMapFns :
    /\ Len(results) < MaxObjs
    /\ ResultDone(Result_flatMap(results, this, fn), "flatMap", this, fn, Undefined)

ResultNext ==
    \/ ResIsOk
    \/ ResIsErr
    \/ ResUnwrap
    \/ ResUnwrapOrDefault
    \/ ResUnwrapOrElse
    \/ ResExpect
    \/ ResGetErr
    \/ ResMap
    \/ ResFlatMap

SpecResult == ResultInit /\ [][ResultNext]_vars

(***************************************************************************)
(* Result: properties.                                                     *)
(***************************************************************************)
\* C2: on Ok(v), isOk() is true and getErr() throws the Error "Called getErr
\* on an Ok value."; on Err(e), getErr() returns e and unwrap() throws the
\* Error "Called unwrap on an error.".
C2_OkErrAccessors ==
    /\ (op.name = "isOk" /\ IsOk(results[op.this])) => ret = Return(Bool(TRUE))
    /\ (op.name = "getErr" /\ IsOk(results[op.this])) =>
            ret = Throw("Called getErr on an Ok value.")
    /\ (op.name = "getErr" /\ ~IsOk(results[op.this])) =>
            ret = Return(results[op.this].error)
    /\ (op.name = "unwrap" /\ ~IsOk(results[op.this])) =>
            ret = Throw("Called unwrap on an error.")
C2_Witness ==
    /\ op.name = "getErr"
    /\ IsOk(results[op.this])
    /\ ret = Throw("Called getErr on an Ok value.")

\* C3: map on Err(e) returns an Err whose getErr() returns e, and the
\* callback is not invoked.
C3_MapErr ==
    (op.name = "map" /\ ~IsOk(results[op.this])) =>
        /\ Returned(ret)
        /\ ~IsOk(Returnee(results))
        /\ Result_getErr(results, ret[2][2]).out = Return(results[op.this].error)
        /\ calls = <<>>
C3_Witness ==
    /\ op.name = "map"
    /\ results[op.this] = Err(Str("Something went wrong."))
    /\ Returnee(results) = Err(Str("Something went wrong."))
    /\ ret[2][2] # op.this

\* C7: no call changes an existing Result: every instance stays in the heap
\* with the variant and the value or error it was constructed with, isOk()
\* and isErr() answer opposite on it, and map and flatMap return an
\* instance that did not exist before the call.
Exclusive(heap, i) ==
    /\ Result_isOk(heap, i).out \in {Return(Bool(TRUE)), Return(Bool(FALSE))}
    /\ Result_isErr(heap, i).out \in {Return(Bool(TRUE)), Return(Bool(FALSE))}
    /\ Result_isOk(heap, i).out # Result_isErr(heap, i).out
C7_Step ==
    /\ \A i \in DOMAIN results :
        /\ i \in DOMAIN results'
        /\ results'[i] = results[i]
        /\ Exclusive(results, i)
        /\ Exclusive(results', i)
        /\ Result_isOk(results', i).out = Result_isOk(results, i).out
    /\ op'.name \in {"map", "flatMap"} =>
        /\ Returned(ret')
        /\ ret'[2][2] \in DOMAIN results' \ DOMAIN results
C7_ResultImmutable == [][C7_Step]_vars
C7_Witness ==
    /\ op.name = "map"
    /\ IsOk(results[op.this])
    /\ IsOk(Returnee(results))
    /\ Returnee(results).value # results[op.this].value


(***************************************************************************)
(* JavaScript arrays.                                                      *)
(***************************************************************************)
Min(x, y) == IF x < y THEN x ELSE y
Max(x, y) == IF x < y THEN y ELSE x

\* list[i], zero-based; undefined outside the array.
Index(list, i) == IF i >= 0 /\ i < Len(list) THEN list[i + 1] ELSE Undefined

\* Array.prototype.slice(start, end): negative offsets count from the end.
Clamp(list, k) == IF k < 0 THEN Max(Len(list) + k, 0) ELSE Min(k, Len(list))
Slice(list, start, end) == SubSeq(list, Clamp(list, start) + 1, Clamp(list, end))
SliceFrom(list, start) == Slice(list, start, Len(list))

RECURSIVE Flatten(_)
Flatten(lists) == IF lists = <<>> THEN <<>> ELSE Head(lists) \o Flatten(Tail(lists))

(***************************************************************************)
(* Callbacks handed to the Iterator methods.                               *)
(***************************************************************************)
\* (value) => boolean.  "lt1" is x => x < 1, "ne0" is x => x !== 0, "always"
\* is () => true; each is total, undefined included (undefined < 1 is false).
Preds == {"lt1", "ne0", "always"}
Test(p, v) ==
    IF p = "lt1" THEN IsNum(v) /\ v[2] < 1
    ELSE IF p = "ne0" THEN v # Num(0)
    ELSE TRUE

\* Array.prototype.filter
RECURSIVE Filter(_, _)
Filter(list, p) ==
    IF list = <<>> THEN <<>>
    ELSE (IF Test(p, Head(list)) THEN <<Head(list)>> ELSE <<>>) \o Filter(Tail(list), p)

\* (value) => Iterator<U>: "twice" is v => Iterator.from([v, v]), "upTo" is
\* v => Iterator.range(v).  Given here by the items of the iterator returned.
ChainFns == {"twice", "upTo"}
ApplyChain(fn, v) ==
    IF fn = "twice" THEN <<v, v>>
    ELSE IF IsNum(v) THEN [i \in 1..v[2] |-> Num(i - 1)] ELSE <<>>

\* (value, other) => V
PairFns == {"pair", "first"}
ApplyPair(fn, v, o) == IF fn = "pair" THEN Tuple(v, o) ELSE v

(***************************************************************************)
(* Iterator (src/src/iterator.ts).  The heap is [arrays, iters].           *)
(***************************************************************************)
Heap == [arrays |-> arrays, iters |-> iters]
Items(heap, this) == heap.arrays[heap.iters[this].items]

NewArray(heap, list) == [heap EXCEPT !.arrays = Append(@, list)]
\* constructor(private items: T[]) with index = 0
NewIterator(heap, items) ==
    Effect([heap EXCEPT !.iters = Append(@, [items |-> items, index |-> 0])],
           Return(Obj(Len(heap.iters) + 1)), <<>>)
\* new Iterator(<a freshly computed array>)
IteratorOver(heap, list, invoked) ==
    LET e == NewIterator(NewArray(heap, list), Len(heap.arrays) + 1)
    IN  Effect(e.heap, e.out, invoked)
\* return <a freshly computed array>
ArrayOf(heap, list, invoked) ==
    Effect(NewArray(heap, list), Return(Arr(Len(heap.arrays) + 1)), invoked)

Iterator_from(heap, items) == NewIterator(heap, items)
\* Mutant: the loop runs to end inclusive (i <= end).
Iterator_range_inclusive(heap, start, end) ==
    LET from == IF end = Undefined THEN 0 ELSE start[2]
        to == IF end = Undefined THEN start[2] ELSE end[2]
    IN  IteratorOver(heap, [i \in 1..(to - from + 1) |-> Num(from + i - 1)], <<>>)
\* start and end are JavaScript values; end is undefined when omitted.
Iterator_range(heap, start, end) ==
    LET from == IF end = Undefined THEN 0 ELSE start[2]
        to == IF end = Undefined THEN start[2] ELSE end[2]
    IN  IteratorOver(heap, [i \in 1..(to - from) |-> Num(from + i - 1)], <<>>)

Iterator_hasNext(heap, this) ==
    Effect(heap, Return(Bool(heap.iters[this].index < Len(Items(heap, this)))), <<>>)
\* Mutant: the cursor moves before the item is read (this.items[++this.index]).
Iterator_next_preIncrement(heap, this) ==
    Effect([heap EXCEPT !.iters[this].index = @ + 1],
           Return(Index(Items(heap, this), heap.iters[this].index + 1)), <<>>)
Iterator_next(heap, this) ==
    Effect([heap EXCEPT !.iters[this].index = @ + 1],
           Return(Index(Items(heap, this), heap.iters[this].index)), <<>>)
Iterator_peek(heap, this) ==
    Effect(heap, Return(Index(Items(heap, this), heap.iters[this].index)), <<>>)
\* Mutant: the bounds check lets index = length through.
Iterator_peekAt_inclusive(heap, this, index) ==
    IF index < 0 \/ index > Len(Items(heap, this))
    THEN Effect(heap, Throw("Index out of bounds: " \o ToString(index)), <<>>)
    ELSE Effect(heap, Return(Index(Items(heap, this), index)), <<>>)
Iterator_peekAt(heap, this, index) ==
    IF index < 0 \/ index >= Len(Items(heap, this))
    THEN Effect(heap, Throw("Index out of bounds: " \o ToString(index)), <<>>)
    ELSE Effect(heap, Return(Index(Items(heap, this), index)), <<>>)
Iterator_reset(heap, this) ==
    Effect([heap EXCEPT !.iters[this].index = 0], Return(Undefined), <<>>)

\* The callbacks a pass over the items invokes, one per item, in order.
Invoked(fn, list) == [i \in 1..Len(list) |-> <<fn, list[i]>>]

\* Mutant: map overwrites the receiver's items and returns the receiver.
Iterator_map_inPlace(heap, this, fn) ==
    Effect([heap EXCEPT !.arrays[heap.iters[this].items] =
                [i \in 1..Len(Items(heap, this)) |-> Apply(fn, Items(heap, this)[i])]],
           Return(Obj(this)), Invoked(fn, Items(heap, this)))
Iterator_map(heap, this, fn) ==
    IteratorOver(heap, [i \in 1..Len(Items(heap, this)) |-> Apply(fn, Items(heap, this)[i])],
                 Invoked(fn, Items(heap, this)))
Iterator_filter(heap, this, predicate) ==
    IteratorOver(heap, Filter(Items(heap, this), predicate),
                 Invoked(predicate, Items(heap, this)))
\* fn ? this.items.map(fn) : this.items; fn is "" when omitted.
Iterator_collect(heap, this, fn) ==
    IF fn = ""
    THEN Effect(heap, Return(Arr(heap.iters[this].items)), <<>>)
    ELSE ArrayOf(heap, [i \in 1..Len(Items(heap, this)) |-> Apply(fn, Items(heap, this)[i])],
                 Invoked(fn, Items(heap, this)))
Iterator_chain(heap, this, fn) ==
    IteratorOver(heap,
                 Flatten([i \in 1..Len(Items(heap, this)) |->
                              ApplyChain(fn, Items(heap, this)[i])]),
                 Invoked(fn, Items(heap, this)))
Iterator_skip(heap, this, n) ==
    IteratorOver(heap, SliceFrom(Items(heap, this), n), <<>>)
Iterator_take(heap, this, n) ==
    IteratorOver(heap, Slice(Items(heap, this), 0, n), <<>>)
Iterator_enumerate(heap, this) ==
    IteratorOver(heap, [i \in 1..Len(Items(heap, this)) |->
                            Tuple(Num(i - 1), Items(heap, this)[i])], <<>>)

\* this.items.map((value, index) => [value, other.items[index]])
Paired(heap, this, other) ==
    [i \in 1..Len(Items(heap, this)) |->
        Tuple(Items(heap, this)[i], Index(Items(heap, other), i - 1))]
Iterator_zip(heap, this, other) == IteratorOver(heap, Paired(heap, this, other), <<>>)
Iterator_chainWith(heap, this, other) ==
    IteratorOver(heap, Paired(heap, this, other), <<>>)
Iterator_collectInto(heap, this, other, fn) ==
    ArrayOf(heap,
            [i \in 1..Len(Items(heap, this)) |->
                ApplyPair(fn, Items(heap, this)[i], Index(Items(heap, other), i - 1))],
            [i \in 1..Len(Items(heap, this)) |-> <<fn, Items(heap, this)[i]>>])
Iterator_collectWith(heap, this, other) ==
    ArrayOf(heap, Paired(heap, this, other), <<>>)

\* skipWhile / takeWhile: let index = 0; while (predicate(this.items[index])) index++
ScanTest(heap, s) == Test(s.fn, Index(Items(heap, s.this), s.val[2]))
\* Mutant: the first item that fails the predicate is dropped too.
Iterator_skipWhile_return_offByOne(heap, s) ==
    IteratorOver(heap, SliceFrom(Items(heap, s.this), s.val[2] + 1), <<>>)
Iterator_skipWhile_return(heap, s) ==
    IteratorOver(heap, SliceFrom(Items(heap, s.this), s.val[2]), <<>>)
Iterator_takeWhile_return(heap, s) ==
    IteratorOver(heap, Slice(Items(heap, s.this), 0, s.val[2]), <<>>)


(***************************************************************************)
(* Iterator: the calls a client makes.                                     *)
(***************************************************************************)
InputLists == UNION {[1..n -> InputNums] : n \in 0..MaxLen}

\* The iterators the client keeps for the whole run, and the only ones it
\* pulls from.  What a pipeline call returned is kept until the client's
\* next pipeline call and then dropped.
Held == {1, 2}
Kept ==
    [arrays |-> SubSeq(arrays, 1, Min(Len(arrays), Cardinality(Held))),
     iters |-> SubSeq(iters, 1, Min(Len(iters), Cardinality(Held)))]
Idle == scan = NoOp

IterDone(e, name, this, fn, val) ==
    /\ arrays' = e.heap.arrays
    /\ iters' = e.heap.iters
    /\ ret' = e.out
    /\ calls' = e.calls
    /\ op' = Call(name, this, fn, val)
    /\ UNCHANGED <<opts, results, made, scan>>

\* const it = Iterator.from(list)
CursorInit ==
    /\ \E list \in InputLists :
        /\ arrays = <<list>>
        /\ iters = Iterator_from([arrays |-> <<list>>, iters |-> <<>>], 1).heap.iters
    /\ opts = <<>>
    /\ results = <<>>
    /\ made = <<>>
    /\ scan = NoOp
    /\ op = NoOp
    /\ ret = NoCall
    /\ calls = <<>>

\* const a = Iterator.range(s, e), b = Iterator.range(n)
PipelineInit ==
    /\ \E s \in 0..MaxLen, e \in 0..MaxLen, n \in 0..MaxLen :
        LET a == Iterator_range([arrays |-> <<>>, iters |-> <<>>], Num(s), Num(e))
            b == Iterator_range(a.heap, Num(n), Undefined)
        IN  /\ arrays = b.heap.arrays
            /\ iters = b.heap.iters
    /\ opts = <<>>
    /\ results = <<>>
    /\ made = <<>>
    /\ scan = NoOp
    /\ op = NoOp
    /\ ret = NoCall
    /\ calls = <<>>

ItHasNext == \E this \in DOMAIN Kept.iters :
    /\ Idle
    /\ IterDone(Iterator_hasNext(Heap, this), "hasNext", this, "", Undefined)
ItNext == \E this \in DOMAIN Kept.iters :
    /\ Idle
    /\ iters[this].index < Len(Items(Heap, this)) + MaxOverrun
    /\ IterDone(Iterator_next(Heap, this), "next", this, "", Undefined)
ItPeek == \E this \in DOMAIN Kept.iters :
    /\ Idle
    /\ IterDone(Iterator_peek(Heap, this), "peek", this, "", Undefined)
ItPeekAt == \E this \in DOMAIN Kept.iters :
    \E index \in -1..(Len(Items(Heap, this)) + 1) :
        /\ Idle
        /\ IterDone(Iterator_peekAt(Heap, this, index), "peekAt", this, "", Num(index))
ItReset == \E this \in DOMAIN Kept.iters :
    /\ Idle
    /\ IterDone(Iterator_reset(Heap, this), "reset", this, "", Undefined)

\* The iterators with the arrays behind them, for a client whose iterators
\* come from Iterator.from and Iterator.range only; an array collect(fn)
\* made is kept until the client's next collect and then dropped.
Backing ==
    [arrays |-> SubSeq(arrays, 1, Min(Len(arrays), Len(iters))), iters |-> iters]
ItCollect == \E this \in DOMAIN Backing.iters, fn \in {"", "double"} :
    /\ Idle
    /\ IterDone(Iterator_collect(Backing, this, fn), "collect", this, fn, Undefined)

\* The lists the client can write to: the one it passed to Iterator.from,
\* and the one the last collect() without a mapper returned.
ClientLists ==
    {1} \cup (IF op.name = "collect" /\ op.fn = "" /\ Returned(ret) THEN {ret[2][2]} ELSE {})
\* list[k] = v, in the client's code
ClientWrite == \E a \in ClientLists, v \in InputNums :
    \E k \in 0..(Len(arrays[a]) - 1) :
        /\ Idle
        /\ arrays' = [arrays EXCEPT ![a][k + 1] = v]
        /\ op' = Call("write", 0, "", Arr(a))
        /\ ret' = NoCall
        /\ calls' = <<>>
        /\ UNCHANGED <<opts, results, iters, scan, made>>

ItMap == \E this \in Held, fn \in MapFns :
    /\ Idle
    /\ IterDone(Iterator_map(Kept, this, fn), "map", this, fn, Undefined)
ItFilter == \E this \in Held, p \in Preds :
    /\ Idle
    /\ IterDone(Iterator_filter(Kept, this, p), "filter", this, p, Undefined)
ItChain == \E this \in Held, fn \in ChainFns :
    /\ Idle
    /\ IterDone(Iterator_chain(Kept, this, fn), "chain", this, fn, Undefined)
ItSkip == \E this \in Held, n \in -1..(MaxLen + 1) :
    /\ Idle
    /\ IterDone(Iterator_skip(Kept, this, n), "skip", this, "", Num(n))
ItTake == \E this \in Held, n \in -1..(MaxLen + 1) :
    /\ Idle
    /\ IterDone(Iterator_take(Kept, this, n), "take", this, "", Num(n))
ItEnumerate == \E this \in Held :
    /\ Idle
    /\ IterDone(Iterator_enumerate(Kept, this), "enumerate", this, "", Undefined)
ItZip == \E this \in Held, other \in Held :
    /\ Idle
    /\ IterDone(Iterator_zip(Kept, this, other), "zip", this, "", Obj(other))
ItChainWith == \E this \in Held, other \in Held :
    /\ Idle
    /\ IterDone(Iterator_chainWith(Kept, this, other), "chainWith", this, "", Obj(other))
ItCollectInto == \E this \in Held, other \in Held, fn \in PairFns :
    /\ Idle
    /\ IterDone(Iterator_collectInto(Kept, this, other, fn), "collectInto", this, fn,
                Obj(other))
ItCollectWith == \E this \in Held, other \in Held :
    /\ Idle
    /\ IterDone(Iterator_collectWith(Kept, this, other), "collectWith", this, "",
                Obj(other))

\* skipWhile / takeWhile are entered, loop, and return.
ScanCall(name, this, p) ==
    /\ Idle
    /\ scan' = Call(name, this, p, Num(0))
    /\ op' = Call(name, this, p, Undefined)
    /\ ret' = NoCall
    /\ calls' = <<>>
    /\ arrays' = Kept.arrays
    /\ iters' = Kept.iters
    /\ UNCHANGED <<opts, results, made>>
ItSkipWhile == \E this \in Held, p \in Preds : ScanCall("skipWhile", this, p)
ItTakeWhile == \E this \in Held, p \in Preds : ScanCall("takeWhile", this, p)
ScanItem == Index(Items(Heap, scan.this), scan.val[2])
ItScanStep ==
    /\ ~Idle
    /\ ScanTest(Heap, scan)
    /\ scan.val[2] < Len(Items(Heap, scan.this)) + MaxOverrun
    /\ scan' = [scan EXCEPT !.val = Num(@[2] + 1)]
    /\ calls' = Append(calls, <<scan.fn, ScanItem>>)
    /\ UNCHANGED <<opts, results, made, arrays, iters, op, ret>>
ItScanReturn ==
    /\ ~Idle
    /\ ~ScanTest(Heap, scan)
    /\ LET e == IF scan.name = "skipWhile" THEN Iterator_skipWhile_return(Heap, scan)
                ELSE Iterator_takeWhile_return(Heap, scan)
       IN  /\ arrays' = e.heap.arrays
           /\ iters' = e.heap.iters
           /\ ret' = e.out
    /\ calls' = Append(calls, <<scan.fn, ScanItem>>)
    /\ scan' = NoOp
    /\ UNCHANGED <<opts, results, made, op>>

CursorNext ==
    \/ ItHasNext
    \/ ItNext
    \/ ItPeek
    \/ ItPeekAt
    \/ ItReset

PipelineNext ==
    \/ ItNext
    \/ ItReset
    \/ ItMap
    \/ ItFilter
    \/ ItChain
    \/ ItSkip
    \/ ItTake
    \/ ItEnumerate
    \/ ItZip
    \/ ItChainWith
    \/ ItCollectInto
    \/ ItCollectWith
    \/ ItSkipWhile
    \/ ItTakeWhile
    \/ ItScanStep
    \/ ItScanReturn

\* const r = Iterator.range(start) or Iterator.range(start, end), once.
RangeInit ==
    /\ arrays = <<>>
    /\ iters = <<>>
    /\ opts = <<>>
    /\ results = <<>>
    /\ made = <<>>
    /\ scan = NoOp
    /\ op = NoOp
    /\ ret = NoCall
    /\ calls = <<>>
ItRange ==
    \E start \in {Num(n) : n \in -1..MaxLen},
       end \in {Num(n) : n \in -1..MaxLen} \cup {Undefined} :
    /\ iters = <<>>
    /\ LET e == Iterator_range(Heap, start, end)
           c == Call("Iterator.range", 0, "", Tuple(start, end))
       IN  /\ arrays' = e.heap.arrays
           /\ iters' = e.heap.iters
           /\ ret' = e.out
           /\ calls' = e.calls
           /\ op' = c
           /\ made' = Record(made, iters, e.heap.iters, c)
    /\ UNCHANGED <<opts, results, scan>>
RangeNext ==
    \/ ItRange
    \/ ItHasNext
    \/ ItNext
    \/ ItCollect

SpecCursor == CursorInit /\ [][CursorNext]_vars
SpecRange == RangeInit /\ [][RangeNext]_vars

\* const it = Iterator.from(list), then pulls, collects and writes to list.
OwnerNext ==
    \/ ItNext
    \/ ItPeek
    \/ ItReset
    \/ ItCollect
    \/ ClientWrite
SpecOwner == CursorInit /\ [][OwnerNext]_vars
SpecPipeline == PipelineInit /\ [][PipelineNext]_vars


(***************************************************************************)
(* Iterator: properties.                                                   *)
(***************************************************************************)
\* C8: the cursor of every iterator is in [0, length], whatever calls of
\* hasNext, next, peek, peekAt and reset were made.
C8_CursorInRange ==
    \A i \in DOMAIN iters :
        iters[i].index >= 0 /\ iters[i].index <= Len(Items(Heap, i))

\* C9: a pipeline call leaves every iterator the client holds (the receiver
\* among them) with the cursor and the items it had, and what it returns
\* is an iterator that did not exist before, over an array that did not
\* exist before, with cursor 0.
PipelineOps ==
    {"map", "filter", "skip", "take", "skipWhile", "takeWhile", "enumerate", "zip",
     "chain"}
C9_Step ==
    op'.name \in PipelineOps =>
        /\ \A i \in Held :
            /\ iters'[i] = iters[i]
            /\ arrays'[iters[i].items] = arrays[iters[i].items]
        /\ Returned(ret') =>
            /\ ret'[2][1] = "object"
            /\ ret'[2][2] \in DOMAIN iters' \ Held
            /\ iters'[ret'[2][2]].index = 0
            /\ iters'[ret'[2][2]].items \in DOMAIN arrays'
            /\ iters'[ret'[2][2]].items \notin {iters[i].items : i \in Held}
C9_PipelineFresh == [][C9_Step]_vars
C9_Witness ==
    /\ op = Call("map", 1, "double", Undefined)
    /\ iters[1].index = 1
    /\ Items(Heap, 1) = <<Num(0), Num(1)>>
    /\ ret = Return(Obj(3))
    /\ iters[3].index = 0
    /\ Items(Heap, 3) = <<Num(0), Num(2)>>

\* C10: zip, chainWith, collectInto and collectWith return exactly
\* min(length(a), length(b)) entries, entry i built from a[i] and b[i].
PairingOps == {"zip", "chainWith", "collectInto", "collectWith"}
Returned_items ==
    IF ret[2][1] = "array" THEN arrays[ret[2][2]] ELSE Items(Heap, ret[2][2])
C10_PairingShorter ==
    (op.name \in PairingOps /\ Returned(ret)) =>
        LET a == Items(Heap, op.this)
            b == Items(Heap, op.val[2])
            r == Returned_items
        IN  /\ Len(r) = Min(Len(a), Len(b))
            /\ \A i \in 1..Len(r) :
                r[i] = IF op.name = "collectInto" THEN ApplyPair(op.fn, a[i], b[i])
                       ELSE Tuple(a[i], b[i])

\* C11: skipWhile(p) returns the items from the first one that fails p to the
\* end, in order (all of them when the first item fails p), and while an
\* item fails p the loop never reads past the first such item.
FirstFailing(list, p) ==
    IF \E i \in 1..Len(list) : ~Test(p, list[i])
    THEN CHOOSE i \in 1..Len(list) :
            /\ ~Test(p, list[i])
            /\ \A j \in 1..(i - 1) : Test(p, list[j])
    ELSE Len(list) + 1
C11_SkipWhileSuffix ==
    /\ (op.name = "skipWhile" /\ Returned(ret)) =>
        LET list == Items(Heap, op.this)
        IN  Items(Heap, ret[2][2]) = SubSeq(list, FirstFailing(list, op.fn), Len(list))
    /\ (scan.name = "skipWhile"
            /\ FirstFailing(Items(Heap, scan.this), scan.fn) <= Len(Items(Heap, scan.this))) =>
        scan.val[2] < FirstFailing(Items(Heap, scan.this), scan.fn)
C11_Witness ==
    /\ op = Call("skipWhile", 1, "lt1", Undefined)
    /\ Items(Heap, 1) = <<Num(0), Num(1)>>
    /\ ret = Return(Obj(3))
    /\ Items(Heap, 3) = <<Num(1)>>

\* C12: peekAt(i) throws the index-out-of-bounds Error for every i < 0 and
\* every i >= length, returns the item at position i for every other i,
\* wherever the cursor is, and in both cases leaves cursor and items as
\* they were.
C12_Step ==
    op'.name = "peekAt" =>
        LET i == op'.val[2]
            list == Items(Heap, op'.this)
        IN  /\ iters' = iters
            /\ arrays' = arrays
            /\ (i < 0 \/ i >= Len(list)) =>
                    ret' = Throw("Index out of bounds: " \o ToString(i))
            /\ (i >= 0 /\ i < Len(list)) => ret' = Return(list[i + 1])
C12_PeekAtChecked == [][C12_Step]_vars
C12_Witness ==
    /\ op.name = "peekAt"
    /\ Len(Items(Heap, op.this)) > 0
    /\ op.val = Num(Len(Items(Heap, op.this)))
    /\ iters[op.this].index > 0
    /\ ret = Throw("Index out of bounds: " \o ToString(op.val[2]))

\* C13: an iterator made by Iterator.range(start, end) holds exactly the
\* integers start, start + 1, ..., end - 1 in increasing order (none when
\* start >= end), one made by Iterator.range(n) holds what range(0, n)
\* holds, and next and collect() hand out just those.
Ints(start, end) ==
    [k \in 1..(IF start >= end THEN 0 ELSE end - start) |-> Num(start + k - 1)]
C13_RangeYields ==
    \A i \in DOMAIN iters :
        (i \in DOMAIN made /\ made[i].name = "Iterator.range") =>
            LET a == made[i].val[2]
                b == made[i].val[3]
                expected == IF b = Undefined THEN Ints(0, a[2]) ELSE Ints(a[2], b[2])
            IN  /\ Items(Heap, i) = expected
                /\ (op.name = "next" /\ op.this = i /\ iters[i].index <= Len(expected)) =>
                        ret = Return(expected[iters[i].index])
                /\ (op.name = "hasNext" /\ op.this = i) =>
                        ret = Return(Bool(iters[i].index < Len(expected)))
                /\ (op.name = "collect" /\ op.this = i /\ op.fn = "") =>
                        arrays[ret[2][2]] = expected
C13_Witness ==
    /\ made = <<Call("Iterator.range", 0, "", Tuple(Num(2), Undefined))>>
    /\ op.name = "collect"
    /\ op.fn = ""
    /\ Returned(ret)
    /\ arrays[ret[2][2]] = <<Num(0), Num(1)>>
    /\ iters[1].index = Len(Items(Heap, 1))

\* C14: a skipWhile or takeWhile loop stops at the end of the items at the
\* latest: its index never goes past the length, so the predicate is never
\* asked about a position that holds no item.
C14_ScanStopsAtEnd ==
    ~Idle => scan.val[2] <= Len(Items(Heap, scan.this))

\* C15: a write of the client to the list it passed to Iterator.from, or to
\* the list collect() returned, leaves the items of every iterator as they
\* were.
C15_Step ==
    op'.name = "write" =>
        \A i \in DOMAIN iters : arrays'[iters'[i].items] = arrays[iters[i].items]
C15_OwnsItems == [][C15_Step]_vars

\* C16: on an iterator with items left, next returns the item at the cursor
\* and moves the cursor on by exactly one; hasNext tells whether the cursor
\* is before the end and peek returns the item next would return, neither
\* moving the cursor; reset puts the cursor at 0; and none of them changes
\* the items, so that n calls of next from cursor 0 return the n items in
\* order, hasNext being true before each and false after the last.
C16_Step ==
    \A i \in DOMAIN iters :
        LET list == Items(Heap, i)
            index == iters[i].index
        IN  /\ arrays' = arrays
            /\ (op'.this # i) => iters'[i] = iters[i]
            /\ (op'.name = "next" /\ op'.this = i /\ index < Len(list)) =>
                    /\ ret' = Return(list[index + 1])
                    /\ iters'[i].index = index + 1
            /\ (op'.name = "hasNext" /\ op'.this = i) =>
                    /\ ret' = Return(Bool(index < Len(list)))
                    /\ iters'[i] = iters[i]
            /\ (op'.name = "peek" /\ op'.this = i) =>
                    /\ ret' = Return(Index(list, index))
                    /\ iters'[i] = iters[i]
            /\ (op'.name = "reset" /\ op'.this = i) => iters'[i].index = 0
C16_PullInOrder == [][C16_Step]_vars
C16_Witness ==
    /\ op.name = "next"
    /\ Len(Items(Heap, op.this)) = MaxLen
    /\ iters[op.this].index = MaxLen
    /\ ret = Return(Items(Heap, op.this)[MaxLen])

====
